---------------------------- MODULE Spec2Model ----------------------------
(***************************************************************************)
(* A model of the gradient-memory core of DeFRCN:                          *)
(*   - MemoryTrainer.get_gradient / update_gradient   (src/MemoryTrainer.py)*)
(*   - MEGA2Trainer.step                    (src/trainers/MEGA2Trainer.py) *)
(*   - FeatureMap, determine_conv_output_sizes, get_representation_matrix, *)
(*     update_GPM                                            (src/GPM.py)  *)
(*                                                                         *)
(* Numbers.  Gradient components and losses are exact integers (gradient   *)
(* components in units of 10^-unit_exp).  Every other floating point       *)
(* scalar of step is tracked by the set of IEEE-754 classes it may have    *)
(* (nan, pinf, ninf, zero, pos, neg); rounding, overflow and underflow of  *)
(* finite values are not modelled.                                         *)
(***************************************************************************)
EXTENDS Integers, Sequences, FiniteSets, TLC

VARIABLES
    \* ---- the model and the trainer (MemoryTrainer / MEGA2Trainer) ----
    params,            \* model.parameters(): <<[shape, requires_grad]>>
    grad,              \* p.grad of every parameter, a tensor
    tpc,               \* position of the trainer in step (or the last helper call)
    unit_exp,          \* gradient components are multiples of 10^-unit_exp
    loss,              \* loss of the novel batch (detached)
    memory_loss,       \* loss of the memory batch (detached)
    current_gradient,  \* self.current_gradient
    memory_gradient,   \* self.memory_gradient
    angle_tilda,       \* self.angle_tilda, a set of float classes
    ratio,             \* self.ratio, a set of float classes
    theta,             \* self.theta, a set of float classes
    deno,              \* self.deno in units of 10^(-4*unit_exp)
    new_grad,          \* the vector handed to the last update_gradient call
    prev_grad,         \* p.grad as it was when the last helper call started
    batch_grad,        \* what the last backward() of step computed for each parameter
    \* ---- the basis store of update_GPM ----
    features,          \* features: layer name -> basis (the axes of its columns)
    gpm_pc,            \* position of update_GPM: idle, or the branch it is looping in
    keys,              \* the keys of mat_dict the loop has still to visit
    cur,               \* the locals of the loop iteration just run, while live
    zero_only,         \* history: the layers every update of which had threshold 0
    \* ---- the FeatureMap of a model and the functions that use it ----
    layer_names,       \* fmap.layer_names, in forward order
    getting_conv_size, \* fmap.getting_conv_size
    act,               \* fmap.act: layer name -> buffer, NoAct where there is no key
    input_sizes,       \* fmap.input_sizes: layer name -> size, <<>> where no key
    fm_last,           \* the call on the feature map just made and how it ended
    mats               \* what get_representation_matrix just returned

trainerVars == <<params, grad, tpc, unit_exp, loss, memory_loss, current_gradient,
                 memory_gradient, angle_tilda, ratio, theta, deno, new_grad, prev_grad,
                 batch_grad>>

gpmVars == <<features, gpm_pc, keys, cur, zero_only>>

fmapVars == <<layer_names, getting_conv_size, act, input_sizes, fm_last, mats>>

\* what the trainer's methods never touch
outsideTrainer == <<gpmVars, fmapVars>>

vars == <<trainerVars, gpmVars, fmapVars>>

-----------------------------------------------------------------------------
(* Bounds of the model.                                                    *)

\* gradient components range over -MaxGrad .. MaxGrad
MaxGrad == 1
\* losses range over 0 .. MaxLoss
MaxLoss == 1
\* the small gradient unit: components are multiples of 10^-SmallUnitExp
SmallUnitExp == 3

\* squared singular values of a representation matrix range over 0 .. MaxEnergy
MaxEnergy == 2
\* thresholds range over 0/ThDen .. MaxThNum/ThDen
ThDen == 3
MaxThNum == 4
\* a captured input has 0 .. MaxBatch samples
MaxBatch == 2
\* a captured convolutional input has sides 2 .. MaxSide (or a zero side)
MaxSide == 3
\* captures stop when a buffer holds MaxBuffer samples
MaxBuffer == 3

-----------------------------------------------------------------------------
(* Generic helpers.                                                        *)

Min(a, b) == IF a <= b THEN a ELSE b

Max(a, b) == IF a >= b THEN a ELSE b

Range(s) == {s[i] : i \in DOMAIN s}

RECURSIVE Pow10(_)
Pow10(n) == IF n <= 0 THEN 1 ELSE 10 * Pow10(n - 1)

RECURSIVE SeqsOfLen(_, _)
\* all sequences of length n over the set S
SeqsOfLen(S, n) ==
    IF n = 0 THEN {<<>>}
    ELSE {Append(s, x) : s \in SeqsOfLen(S, n - 1), x \in S}

-----------------------------------------------------------------------------
(* The parts of the program a specification leaves alone.                  *)

\* the layers whose representation matrices reach update_GPM
GpmLayers == {"conv", "fc"}

\* the locals of a loop iteration of update_GPM before any iteration has run
NoIteration ==
    [layer |-> "", branch |-> "", outcome |-> "", th |-> 0, mat |-> <<>>,
     U |-> <<>>, r |-> 0, had_basis |-> FALSE, old_basis |-> <<>>]

\* a layer name that is no key of features
Absent == [present |-> FALSE, basis |-> <<>>]

\* no update_GPM call yet: features = {}
GpmIdle ==
    /\ features = [l \in GpmLayers |-> Absent]
    /\ gpm_pc = "idle"
    /\ keys = <<>>
    /\ cur = NoIteration
    /\ zero_only = GpmLayers

\* the layers a FeatureMap may name
FmapLayers == {"conv", "fc"}

\* no key for the layer in fmap.act
NoAct == [shape |-> <<>>, parts |-> <<>>]

\* no matrix for the layer
NoMat == [rows |-> 0, cols |-> 0, written |-> <<>>]

\* no call on the feature map yet
NoCall == [op |-> "", layer |-> "", inputs |-> <<>>, result |-> ""]

\* OrderedDict()
Cleared == [l \in FmapLayers |-> NoAct]

\* FeatureMap.__init__, before layer_names is set
FmapFresh ==
    /\ getting_conv_size = TRUE
    /\ act = Cleared
    /\ input_sizes = [l \in FmapLayers |-> <<>>]
    /\ fm_last = NoCall
    /\ mats = [l \in FmapLayers |-> NoMat]

\* a model with no named layer, never run
FmapIdle ==
    /\ layer_names = <<>>
    /\ FmapFresh

\* no model and no trainer call
TrainerAbsent ==
    /\ params = <<>>
    /\ grad = <<>>
    /\ prev_grad = <<>>
    /\ batch_grad = <<>>
    /\ tpc = "idle"
    /\ unit_exp = 0
    /\ loss = 0
    /\ memory_loss = 0
    /\ current_gradient = <<>>
    /\ memory_gradient = <<>>
    /\ angle_tilda = {}
    /\ ratio = {}
    /\ theta = {}
    /\ deno = 0
    /\ new_grad = <<>>

-----------------------------------------------------------------------------
(* Floating point scalars by class.                                        *)

FClasses == {"nan", "pinf", "ninf", "zero", "pos", "neg"}

FiniteClasses == {"zero", "pos", "neg"}

ClassOfInt(n) == IF n = 0 THEN "zero" ELSE IF n > 0 THEN "pos" ELSE "neg"

\* a tensor element: an exact integer (exact = TRUE, num, may = its class) or a
\* float known only by the classes it may have (exact = FALSE, num = 0)
Num(n) == [exact |-> TRUE, num |-> n, may |-> {ClassOfInt(n)}]

Float(cs) == [exact |-> FALSE, num |-> 0, may |-> cs]

IsFinite(v) == v.may \subseteq FiniteClasses

\* the sign of a class that is not zero and not nan
Positive(a) == a \in {"pos", "pinf"}

Infinite(a) == a \in {"pinf", "ninf"}

NegC(a) ==
    CASE a = "pos" -> "neg" [] a = "neg" -> "pos"
      [] a = "pinf" -> "ninf" [] a = "ninf" -> "pinf"
      [] OTHER -> a

\* IEEE-754 addition
AddC(a, b) ==
    IF a = "nan" \/ b = "nan" THEN {"nan"}
    ELSE IF Infinite(a) THEN (IF Infinite(b) /\ a # b THEN {"nan"} ELSE {a})
    ELSE IF Infinite(b) THEN {b}
    ELSE IF a = "zero" THEN {b}
    ELSE IF b = "zero" THEN {a}
    ELSE IF a = b THEN {a}
    ELSE FiniteClasses

\* IEEE-754 multiplication
MulC(a, b) ==
    IF a = "nan" \/ b = "nan" THEN {"nan"}
    ELSE IF Infinite(a) \/ Infinite(b)
         THEN (IF a = "zero" \/ b = "zero" THEN {"nan"}
               ELSE IF Positive(a) = Positive(b) THEN {"pinf"} ELSE {"ninf"})
    ELSE IF a = "zero" \/ b = "zero" THEN {"zero"}
    ELSE IF Positive(a) = Positive(b) THEN {"pos"} ELSE {"neg"}

\* IEEE-754 division (a zero divisor is +0: a sum of squares, a norm, a loss)
DivC(a, b) ==
    IF a = "nan" \/ b = "nan" THEN {"nan"}
    ELSE IF b = "zero"
         THEN (IF a = "zero" THEN {"nan"}
               ELSE IF Positive(a) THEN {"pinf"} ELSE {"ninf"})
    ELSE IF Infinite(b) THEN (IF Infinite(a) THEN {"nan"} ELSE {"zero"})
    ELSE IF Infinite(a) THEN (IF Positive(a) = Positive(b) THEN {"pinf"} ELSE {"ninf"})
    ELSE IF a = "zero" THEN {"zero"}
    ELSE IF Positive(a) = Positive(b) THEN {"pos"} ELSE {"neg"}

\* torch.sin
SinC(a) ==
    IF a \in {"nan", "pinf", "ninf"} THEN {"nan"}
    ELSE IF a = "zero" THEN {"zero"}
    ELSE FiniteClasses

\* torch.cos
CosC(a) ==
    IF a \in {"nan", "pinf", "ninf"} THEN {"nan"}
    ELSE IF a = "zero" THEN {"pos"}
    ELSE FiniteClasses

\* torch.acos of a value that, when finite, lies in [-1, 1] (a cosine of the
\* angle between two vectors)
AcosC(a) ==
    IF a \in {"nan", "pinf", "ninf"} THEN {"nan"}
    ELSE {"zero", "pos"}

\* torch.clamp(x, min=0.0, max=0.5 * math.pi): nan stays nan
ClampC(a) ==
    IF a = "nan" THEN {"nan"}
    ELSE IF a \in {"pos", "pinf"} THEN {"pos"}
    ELSE {"zero"}

\* the operations on sets of classes
FNeg(A) == {NegC(a) : a \in A}

FAdd(A, B) == UNION {AddC(a, b) : a \in A, b \in B}

FSub(A, B) == FAdd(A, FNeg(B))

FMul(A, B) == UNION {MulC(a, b) : a \in A, b \in B}

FDiv(A, B) == UNION {DivC(a, b) : a \in A, b \in B}

FSin(A) == UNION {SinC(a) : a \in A}

FCos(A) == UNION {CosC(a) : a \in A}

FAcos(A) == UNION {AcosC(a) : a \in A}

FClamp(A) == UNION {ClampC(a) : a \in A}

FInt(n) == {ClassOfInt(n)}

-----------------------------------------------------------------------------
(* Tensors: a shape and the row-major contents.                            *)

RECURSIVE Prod(_)
Prod(s) == IF s = <<>> THEN 1 ELSE Head(s) * Prod(Tail(s))

\* Tensor.numel()
numel(shape) == Prod(shape)

Tensor(shape, data) == [shape |-> shape, data |-> data]

\* p.grad of a parameter that has none (requires_grad = False)
NoGrad == Tensor(<<0>>, <<>>)

\* Tensor.view(-1): the same contents, one dimension
view_flat(t) == Tensor(<<Len(t.data)>>, t.data)

\* x[a:b] of a one-dimensional tensor (Python clips the slice to the length)
Slice(x, a, b) == SubSeq(x, a + 1, Min(b, Len(x)))

\* x.view_as(p): the contents of x in the shape of p
view_as(x, shape) == Tensor(shape, x)

\* dst.copy_(src): the contents of dst are replaced by those of src
copy_(dst, src) == Tensor(dst.shape, src.data)

RECURSIVE get_gradient_from(_, _, _)
get_gradient_from(ps, g, i) ==
    IF i > Len(ps) THEN <<>>
    ELSE IF ps[i].requires_grad
         THEN view_flat(g[i]).data \o get_gradient_from(ps, g, i + 1)
         ELSE get_gradient_from(ps, g, i + 1)

\* MemoryTrainer.get_gradient: torch.cat of the trainable parameters' p.grad.view(-1)
get_gradient(ps, g) == get_gradient_from(ps, g, 1)

\* a faulty loop body: the slice is added to the gradient instead of replacing it
WriteSliceAccumulating(ps, g, v, i, index) ==
    LET s == Slice(v, index, index + numel(ps[i].shape))
    IN  Tensor(g[i].shape, [k \in 1..Len(s) |-> Num(g[i].data[k].num + s[k].num)])

\* the body of update_gradient's loop for parameter i at offset index:
\* p.grad.copy_(new_grad[index:index + n_param].view_as(p))
WriteSlice(ps, g, v, i, index) ==
    copy_(g[i], view_as(Slice(v, index, index + numel(ps[i].shape)), ps[i].shape))

RECURSIVE update_gradient_from(_, _, _, _, _)
update_gradient_from(ps, g, v, i, index) ==
    IF i > Len(ps) THEN g
    ELSE IF ps[i].requires_grad
         THEN update_gradient_from(ps, [g EXCEPT ![i] = WriteSlice(ps, g, v, i, index)],
                                   v, i + 1, index + numel(ps[i].shape))
         ELSE update_gradient_from(ps, g, v, i + 1, index)

\* MemoryTrainer.update_gradient: the gradients after scattering new_grad
update_gradient(ps, g, v) == update_gradient_from(ps, g, v, 1, 0)

\* number of elements of the trainable parameters
RECURSIVE TrainableNumel(_)
TrainableNumel(ps) ==
    IF ps = <<>> THEN 0
    ELSE (IF Head(ps).requires_grad THEN numel(Head(ps).shape) ELSE 0)
         + TrainableNumel(Tail(ps))

-----------------------------------------------------------------------------
(* The models and the gradients the specifications draw from.              *)

Param(shape, rg) == [shape |-> shape, requires_grad |-> rg]

GradVals == {Num(n) : n \in (0 - MaxGrad)..MaxGrad}

\* the p.grad tensors parameter p can hold
GradsOfParam(p) ==
    IF p.requires_grad
    THEN {Tensor(p.shape, d) : d \in SeqsOfLen(GradVals, numel(p.shape))}
    ELSE {NoGrad}

RECURSIVE GradsFor(_)
\* the p.grad tensors a backward pass can leave for the parameters ps
GradsFor(ps) ==
    IF ps = <<>> THEN {<<>>}
    ELSE {<<t>> \o g : t \in GradsOfParam(Head(ps)), g \in GradsFor(Tail(ps))}

\* models of the flatten/scatter specification: partitions of up to three
\* elements, with a frozen parameter in between
GradModels ==
    { <<Param(<<1>>, TRUE), Param(<<2>>, TRUE)>>,
      <<Param(<<2, 1>>, TRUE), Param(<<1>>, TRUE)>>,
      <<Param(<<1, 2>>, TRUE), Param(<<3>>, FALSE), Param(<<1>>, TRUE)>>,
      <<Param(<<1>>, TRUE), Param(<<1>>, TRUE), Param(<<1, 1>>, TRUE)>> }

-----------------------------------------------------------------------------
(* Specification SpecGrad: the two helpers called on their own.            *)

TrainerIdle ==
    /\ unit_exp = 0
    /\ loss = 0
    /\ memory_loss = 0
    /\ current_gradient = <<>>
    /\ memory_gradient = <<>>
    /\ angle_tilda = {}
    /\ ratio = {}
    /\ theta = {}
    /\ deno = 0
    /\ new_grad = <<>>
    /\ batch_grad = <<>>

InitGrad ==
    /\ GpmIdle
    /\ FmapIdle
    /\ params \in GradModels
    /\ grad \in GradsFor(params)
    /\ prev_grad = grad
    /\ tpc = "idle"
    /\ TrainerIdle

\* update_gradient(model, v) for a vector v of the model's length
CallUpdateGradient ==
    /\ tpc = "idle"
    /\ \E v \in SeqsOfLen(GradVals, TrainableNumel(params)) :
        /\ grad' = update_gradient(params, grad, v)
        /\ new_grad' = v
        /\ prev_grad' = grad
        /\ tpc' = "update_gradient"
        /\ UNCHANGED <<outsideTrainer, params, unit_exp, loss, memory_loss, current_gradient,
                       memory_gradient, angle_tilda, ratio, theta, deno, batch_grad>>

\* update_gradient(model, get_gradient(model))
CallRoundTrip ==
    /\ tpc = "idle"
    /\ grad' = update_gradient(params, grad, get_gradient(params, grad))
    /\ new_grad' = get_gradient(params, grad)
    /\ prev_grad' = grad
    /\ tpc' = "round_trip"
    /\ UNCHANGED <<outsideTrainer, params, unit_exp, loss, memory_loss, current_gradient,
                   memory_gradient, angle_tilda, ratio, theta, deno, batch_grad>>

\* the helper returns: its argument is dropped, p.grad stays as written
HelperReturns ==
    /\ tpc \in {"update_gradient", "round_trip"}
    /\ tpc' = "idle"
    /\ prev_grad' = grad
    /\ new_grad' = <<>>
    /\ UNCHANGED <<outsideTrainer, params, grad, unit_exp, loss, memory_loss,
                   current_gradient, memory_gradient, angle_tilda, ratio, theta, deno, batch_grad>>

NextGrad == CallUpdateGradient \/ CallRoundTrip \/ HelperReturns

SpecGrad == InitGrad /\ [][NextGrad]_vars

-----------------------------------------------------------------------------
(* MEGA2Trainer.step.                                                      *)

\* sensitivity = 1e-10 = 10^-SensitivityExp
SensitivityExp == 10

\* the iterations of the refinement loop: while steps <= 10
RefineSteps == 11

\* the candidate angles: for _ in range(3)
NumThetas == 3

RECURSIVE DotFrom(_, _, _)
DotFrom(x, y, i) ==
    IF i > Len(x) THEN 0 ELSE x[i].num * y[i].num + DotFrom(x, y, i + 1)

\* (x * y).sum() of two vectors of exact components
Dot(x, y) == DotFrom(x, y, 1)

\* torch.norm(x) of a vector of exact components
Norm(x) == IF Dot(x, x) = 0 THEN {"zero"} ELSE {"pos"}

\* a guard without a floor: deno >= 0
AtLeastZero(d, e) == d >= 0

\* self.deno >= sensitivity, for deno = d * 10^(-4e) with d an integer:
\* d * 10^(-4e) >= 10^-SensitivityExp
AtLeastSensitivity(d, e) ==
    IF 4 * e <= SensitivityExp
    THEN d >= 1                                \* d * 10^(SensitivityExp - 4e) >= 1
    ELSE d >= Pow10(4 * e - SensitivityExp)

\* loss.backward(): the batch's gradient b is accumulated into p.grad
Backward(g, b) ==
    [i \in 1..Len(g) |->
        IF b[i] = NoGrad THEN g[i]
        ELSE IF g[i] = NoGrad THEN b[i]
        ELSE Tensor(g[i].shape,
                    [k \in 1..Len(g[i].data) |-> Num(g[i].data[k].num + b[i].data[k].num)])]

\* optimizer.zero_grad(set_to_none=True): every p.grad becomes None
ZeroGradToNone(ps, g) == [i \in 1..Len(g) |-> NoGrad]

\* a faulty zero_grad: the gradients of the first pass are left in place
ZeroGradKeeps(ps, g) == g

\* optimizer.zero_grad(set_to_none=False): every p.grad is filled with zeros
ZeroGradToZero(ps, g) ==
    [i \in 1..Len(g) |->
        IF g[i] = NoGrad THEN NoGrad
        ELSE Tensor(g[i].shape, [k \in 1..Len(g[i].data) |-> Num(0)])]

\* one pass of the refinement loop body (lines 55-59)
Refine(th, rat, ang) ==
    FClamp(FAdd(th, FMul(FDiv({"pos"}, FAdd({"pos"}, rat)),
                         FAdd(FNeg(FSin(th)), FMul(rat, FSin(FSub(ang, th)))))))

RECURSIVE RefineN(_, _, _, _)
RefineN(th, rat, ang, n) ==
    IF n = 0 THEN th
    ELSE LET next == Refine(th, rat, ang) IN RefineN(next, rat, ang, n - 1)

\* objectives[idx] (lines 62-63)
Objective(th, l, ml, ang) ==
    FAdd(FMul(FInt(l), FCos(th)), FMul(FInt(ml), FCos(FSub(ang, th))))

\* the scalar a of compute_g_tilda (lines 74-75)
CoeffA(tr, tt, rr, c, m, th, ang, d) ==
    FDiv(FSub(FMul(FMul(FInt(rr), FInt(tt)), FCos(th)),
              FMul(FMul(FMul(FInt(tr), Norm(c)), Norm(m)), FCos(FSub(ang, th)))),
         FInt(d))

\* the scalar b of compute_g_tilda (lines 76-77)
CoeffB(tr, tt, rr, c, m, th, ang, d) ==
    FDiv(FAdd(FMul(FMul(FNeg(FInt(tr)), FInt(tt)), FCos(th)),
              FMul(FMul(FMul(FInt(tt), Norm(c)), Norm(m)), FCos(FSub(ang, th)))),
         FInt(d))

\* compute_g_tilda: a * flat_task_grads + b * flat_ref_grads
compute_g_tilda(tr, tt, rr, c, m, th, ang, d) ==
    LET a == CoeffA(tr, tt, rr, c, m, th, ang, d)
        b == CoeffB(tr, tt, rr, c, m, th, ang, d)
    IN  [i \in 1..Len(c) |-> Float(FAdd(FMul(a, c[i].may), FMul(b, m[i].may)))]

\* models of the step specification: two gradient components
StepModels ==
    { <<Param(<<2>>, TRUE)>>,
      <<Param(<<1>>, TRUE), Param(<<2>>, FALSE), Param(<<1, 1>>, TRUE)>> }

Losses == 0..MaxLoss

stepUnchanged == <<params, unit_exp, outsideTrainer>>

InitStep ==
    /\ GpmIdle
    /\ FmapIdle
    /\ params \in StepModels
    /\ grad = [i \in 1..Len(params) |-> NoGrad]     \* no backward pass yet
    /\ prev_grad = grad
    /\ batch_grad = <<>>
    /\ tpc = "idle"
    /\ unit_exp \in {0, SmallUnitExp}
    /\ loss = 0
    /\ memory_loss = 0
    /\ current_gradient = <<>>
    /\ memory_gradient = <<>>
    /\ angle_tilda = {}
    /\ ratio = {}
    /\ theta = {}
    /\ deno = 0
    /\ new_grad = <<>>

\* lines 13-15: the forward and backward pass on novel_data
BackwardNovel ==
    /\ tpc = "idle"
    /\ \E b \in GradsFor(params), l \in Losses :
          /\ grad' = Backward(grad, b)
          /\ batch_grad' = b
          /\ loss' = l
    /\ tpc' = "novel_backward"
    /\ UNCHANGED <<stepUnchanged, memory_loss, current_gradient, memory_gradient,
                   angle_tilda, ratio, theta, deno, new_grad, prev_grad>>

\* line 17: self.current_gradient = self.get_gradient(self.model)
SnapshotCurrent ==
    /\ tpc = "novel_backward"
    /\ current_gradient' = get_gradient(params, grad)
    /\ tpc' = "current_snapshot"
    /\ UNCHANGED <<stepUnchanged, grad, loss, memory_loss, memory_gradient,
                   angle_tilda, ratio, theta, deno, new_grad, prev_grad, batch_grad>>

\* line 22: self.optimizer.zero_grad(), which sets the gradients to None or
\* fills them with zeros, as the optimizer's set_to_none default has it
ZeroGrad ==
    /\ tpc = "current_snapshot"
    /\ \/ grad' = ZeroGradToNone(params, grad)
       \/ grad' = ZeroGradToZero(params, grad)
    /\ tpc' = "zeroed"
    /\ UNCHANGED <<stepUnchanged, loss, memory_loss, current_gradient, memory_gradient,
                   angle_tilda, ratio, theta, deno, new_grad, prev_grad, batch_grad>>

\* lines 24-26: the forward and backward pass on mem_data
BackwardMemory ==
    /\ tpc = "zeroed"
    /\ \E b \in GradsFor(params), l \in Losses :
          /\ grad' = Backward(grad, b)
          /\ batch_grad' = b
          /\ memory_loss' = l
    /\ tpc' = "memory_backward"
    /\ UNCHANGED <<stepUnchanged, loss, current_gradient, memory_gradient,
                   angle_tilda, ratio, theta, deno, new_grad, prev_grad>>

\* line 28: self.memory_gradient = self.get_gradient(self.model)
SnapshotMemory ==
    /\ tpc = "memory_backward"
    /\ memory_gradient' = get_gradient(params, grad)
    /\ tpc' = "memory_snapshot"
    /\ UNCHANGED <<stepUnchanged, grad, loss, memory_loss, current_gradient,
                   angle_tilda, ratio, theta, deno, new_grad, prev_grad, batch_grad>>

\* lines 33-67: the angle between the gradients, the ratio of the losses, the
\* refinement of the three random candidates and the choice of the best one.
\* A candidate starts in [0, pi/2); argmax may pick any of the candidates.
AngleSearch ==
    /\ tpc = "memory_snapshot"
    /\ LET deno1 == FMul(Norm(current_gradient), Norm(memory_gradient))
           num1 == FInt(Dot(memory_gradient, current_gradient))
           ang == FAcos(FDiv(num1, deno1))
           rat == FDiv(FInt(memory_loss), FInt(loss))
           \* every candidate has the classes of torch.rand(1) * pi / 2 and is
           \* refined with the same ratio and angle
           refined == RefineN({"zero", "pos"}, rat, ang, RefineSteps)
           thetas == [idx \in 1..NumThetas |-> refined]
           objectives == [idx \in 1..NumThetas |->
                             Objective(thetas[idx], loss, memory_loss, ang)]
       IN  /\ angle_tilda' = ang
           /\ ratio' = rat
           /\ theta' = UNION {thetas[max_idx] : max_idx \in DOMAIN objectives}
    /\ tpc' = "angle_chosen"
    /\ UNCHANGED <<stepUnchanged, grad, loss, memory_loss, current_gradient,
                   memory_gradient, deno, new_grad, prev_grad, batch_grad>>

\* lines 69-84: the Gram determinant and, when it reaches the sensitivity floor,
\* the combined gradient written back by update_gradient
Reconcile ==
    /\ tpc = "angle_chosen"
    /\ LET tr == Dot(current_gradient, memory_gradient)
           tt == Dot(current_gradient, current_gradient)
           rr == Dot(memory_gradient, memory_gradient)
           d  == tt * rr - tr * tr
           g_tilda == compute_g_tilda(tr, tt, rr, current_gradient, memory_gradient,
                                      theta, angle_tilda, d)
       IN  /\ deno' = d
           /\ prev_grad' = grad
           /\ IF AtLeastSensitivity(d, unit_exp)
              THEN /\ grad' = update_gradient(params, grad, g_tilda)
                   /\ new_grad' = g_tilda
                   /\ tpc' = "combined"
              ELSE /\ UNCHANGED <<grad, new_grad>>
                   /\ tpc' = "skipped"
    /\ UNCHANGED <<stepUnchanged, loss, memory_loss, current_gradient, memory_gradient,
                   angle_tilda, ratio, theta, batch_grad>>

NextStep ==
    \/ BackwardNovel
    \/ SnapshotCurrent
    \/ ZeroGrad
    \/ BackwardMemory
    \/ SnapshotMemory
    \/ AngleSearch
    \/ Reconcile

SpecStep == InitStep /\ [][NextStep]_vars

\* step has returned
StepReturned == tpc \in {"combined", "skipped"}

\* every gradient slot of a trainable parameter holds a finite value
SlotsFinite ==
    \A i \in 1..Len(params) :
        params[i].requires_grad => \A k \in 1..Len(grad[i].data) : IsFinite(grad[i].data[k])

-----------------------------------------------------------------------------
(* C1, C2, C3: the skip path and the degenerate inputs of step.            *)

\* C1 (as claimed): whenever step takes the skip path, on return every trainable
\* parameter's gradient slot holds the current-task gradient.
C1_SkipLeavesCurrentGradient ==
    tpc = "skipped" => get_gradient(params, grad) = current_gradient

\* what the code leaves on the skip path: the memory-task gradient, the result
\* of the second backward pass
C1_SkipLeavesMemoryGradient ==
    tpc = "skipped" => get_gradient(params, grad) = memory_gradient

\* the pair of gradients is degenerate for the angle computation
Degenerate ==
    \/ Dot(current_gradient, current_gradient) = 0
    \/ Dot(memory_gradient, memory_gradient) = 0
    \/ current_gradient = memory_gradient

\* C2: for a pair of gradients that is degenerate for the angle computation
\* (a zero norm product, or identical vectors) step returns without having
\* called update_gradient, and the gradient slots hold only finite values.
C2_DegenerateIsSkipped ==
    (StepReturned /\ Degenerate) =>
        /\ tpc = "skipped"
        /\ new_grad = <<>>
        /\ grad = prev_grad
        /\ SlotsFinite

\* step has returned for two identical nonzero gradients, whose angle is
\* acos of a quotient of 1, with the angle search run on it
C2_Witness ==
    /\ StepReturned
    /\ current_gradient = memory_gradient
    /\ Dot(current_gradient, current_gradient) > 0
    /\ theta # {}

\* step has returned for a zero current-task gradient: the angle is nan
C2_WitnessZeroNorm ==
    /\ StepReturned
    /\ Dot(current_gradient, current_gradient) = 0
    /\ Dot(memory_gradient, memory_gradient) > 0
    /\ angle_tilda = {"nan"}

\* C3 (as claimed): for every step whose current-task loss is 0 the step writes
\* no nan or infinite value into any parameter's gradient slot.
C3_ZeroLossLeavesFiniteGradient ==
    (StepReturned /\ loss = 0) => SlotsFinite

\* what the code does with a current-task loss of 0 when it combines: every
\* component written is nan
C3_ZeroLossCombinesToNan ==
    (tpc = "combined" /\ loss = 0) =>
        \A i \in 1..Len(params) :
            params[i].requires_grad =>
                \A k \in 1..Len(grad[i].data) : grad[i].data[k].may = {"nan"}

\* with a positive current-task loss every combined gradient is finite
StepPositiveLossFinite ==
    (StepReturned /\ loss > 0) => SlotsFinite

-----------------------------------------------------------------------------
(* C4: the flatten/scatter round trip.                                     *)

\* the number of elements of the trainable parameters before parameter i
RECURSIVE OffsetOf(_, _)
OffsetOf(ps, i) ==
    IF i <= 1 THEN 0
    ELSE OffsetOf(ps, i - 1)
         + (IF ps[i - 1].requires_grad THEN numel(ps[i - 1].shape) ELSE 0)

\* C4: after update_gradient(model, v) every trainable parameter's gradient holds
\* exactly its slice of v in the parameter's own shape (whatever it held before),
\* so get_gradient(model) returns v; and update_gradient(model,
\* get_gradient(model)) leaves every gradient as it was.
C4_RoundTrip ==
    /\ tpc \in {"update_gradient", "round_trip"} =>
          /\ \A i \in 1..Len(params) :
                IF params[i].requires_grad
                THEN /\ grad[i].shape = params[i].shape
                     /\ grad[i].data = SubSeq(new_grad, OffsetOf(params, i) + 1,
                                              OffsetOf(params, i) + numel(params[i].shape))
                ELSE grad[i] = prev_grad[i]
          /\ get_gradient(params, grad) = new_grad
    /\ tpc = "round_trip" => grad = prev_grad

\* a scatter of a vector that differs from the nonzero gradients it replaces,
\* over a model of at least two trainable parameters of different sizes
C4_Witness ==
    /\ tpc = "update_gradient"
    /\ \E i, j \in 1..Len(params) :
          /\ i < j
          /\ params[i].requires_grad /\ params[j].requires_grad
          /\ numel(params[i].shape) # numel(params[j].shape)
          /\ \A k \in {i, j} : \E e \in 1..Len(prev_grad[k].data) :
                /\ prev_grad[k].data[e].num # 0
                /\ new_grad[OffsetOf(params, k) + e].num # 0
                /\ grad[k].data[e] # prev_grad[k].data[e]

-----------------------------------------------------------------------------
(* update_GPM.  A representation matrix is taken from the family whose      *)
(* left singular vectors are standard basis vectors: it is given by the     *)
(* energy (squared singular value) it carries on each row axis, and a       *)
(* basis is the sequence of axes of its columns.  Scalars are exact         *)
(* rationals; a ratio with total energy 0 is nan and compares false.        *)

\* activation.shape[0] of the layer's representation matrix: a square
\* matrix for "conv", a single column of three rows for "fc"
MatRows(l) == IF l = "conv" THEN 2 ELSE 3

\* activation.shape[1] of the layer's representation matrix
MatCols(l) == IF l = "conv" THEN 2 ELSE 1

\* full_matrices=False: min(rows, cols) singular values
NumSingular(l) == Min(MatRows(l), MatCols(l))

\* mat_dict[layer_name]: the energy on each row axis, rank at most the column count
Mats(l) ==
    {m \in SeqsOfLen(0..MaxEnergy, MatRows(l)) :
        Cardinality({i \in 1..MatRows(l) : m[i] > 0}) <= MatCols(l)}

\* threshold[layer_name], as a numerator over ThDen
Thresholds == 0..MaxThNum

\* mat_dict.keys(): any distinct layers in any order
KeyOrders ==
    {ks \in UNION {SeqsOfLen(GpmLayers, n) : n \in 0..Cardinality(GpmLayers)} :
        \A i, j \in 1..Len(ks) : i # j => ks[i] # ks[j]}

RECURSIVE Sum(_)
\* (S ** 2).sum()
Sum(sq) == IF sq = <<>> THEN 0 ELSE Head(sq) + Sum(Tail(sq))

\* torch.linalg.svd(m, full_matrices=False): the possible U, one axis per
\* column, singular values descending; the order among equal values and the
\* vectors of zero singular values are not determined
svd(m, k) ==
    {U \in SeqsOfLen(1..Len(m), k) :
        /\ \A i, j \in 1..k : i # j => U[i] # U[j]
        /\ \A j \in 1..(k - 1) : m[U[j]] >= m[U[j + 1]]
        /\ \A i \in 1..Len(m) : m[i] > 0 => i \in Range(U)}

\* S ** 2, in the order of the columns of U
SquaredSingular(m, U) == [j \in 1..Len(U) |-> m[U[j]]]

\* how many columns of the basis lie on axis i
Count(basis, i) == Cardinality({j \in 1..Len(basis) : basis[j] = i})

\* act_hat = activation - F F^T activation: row i is scaled by 1 - Count(F, i)
Residual(m, basis) ==
    [i \in 1..Len(m) |-> (1 - Count(basis, i)) * (1 - Count(basis, i)) * m[i]]

\* the test num/total <= tn/ThDen
AtOrBelowThreshold(num, total, tn) == total > 0 /\ num * ThDen <= tn * total

\* the test num/total < tn/ThDen
BelowThreshold(num, total, tn) == total > 0 /\ num * ThDen < tn * total

\* torch.cumsum(...)[j - 1], times sval_total
CumSum(S2, j) == Sum(SubSeq(S2, 1, j))

\* the rank with the commented-out "+1"
FirstRankPlusOne(S2, tn) ==
    Cardinality({j \in 1..Len(S2) : BelowThreshold(CumSum(S2, j), Sum(S2), tn)}) + 1

\* r = torch.sum(torch.cumsum(sval_ratio) < threshold[layer_name])
FirstRank(S2, tn) ==
    Cardinality({j \in 1..Len(S2) : BelowThreshold(CumSum(S2, j), Sum(S2), tn)})

RECURSIVE GreedyRankAtOrBelow(_, _, _, _, _)
\* the loop with <= in place of <
GreedyRankAtOrBelow(S2, acc, total, tn, ii) ==
    IF ii > Len(S2) THEN 0
    ELSE IF AtOrBelowThreshold(acc, total, tn)
         THEN 1 + GreedyRankAtOrBelow(S2, acc + S2[ii], total, tn, ii + 1)
         ELSE 0

RECURSIVE GreedyRank(_, _, _, _, _)
\* the loop over ii: r counts the values added while accumulated_sval < threshold
GreedyRank(S2, acc, total, tn, ii) ==
    IF ii > Len(S2) THEN 0
    ELSE IF BelowThreshold(acc, total, tn)
         THEN 1 + GreedyRank(S2, acc + S2[ii], total, tn, ii + 1)
         ELSE 0

\* U[:, 0:r]
Columns(U, r) == SubSeq(U, 1, Min(r, Len(U)))

\* the new columns put before the old ones
hstack_new_first(a, b) == b \o a

\* torch.hstack((a, b))
hstack(a, b) == a \o b

\* hstack with no cut
KeepAll(Ui, rows) == Ui

\* Ui[:, 0:Ui.shape[0]] if Ui.shape[1] > Ui.shape[0] else Ui
Truncate(Ui, rows) == IF Len(Ui) > rows THEN Columns(Ui, rows) ELSE Ui

\* not features
NoFeatures == \A l \in GpmLayers : ~features[l].present

\* update_GPM is called: the branch is chosen once, before the loop
BeginUpdate ==
    /\ gpm_pc = "idle"
    /\ \E ks \in KeyOrders : keys' = ks
    /\ gpm_pc' = IF NoFeatures THEN "first" ELSE "subsequent"
    /\ cur' = NoIteration
    /\ UNCHANGED <<features, zero_only, trainerVars, fmapVars>>

\* one iteration of the loop of the first branch
FirstTaskLayer ==
    /\ gpm_pc = "first"
    /\ cur = NoIteration
    /\ keys # <<>>
    /\ LET l == Head(keys) IN
       \E m \in Mats(l), tn \in Thresholds :
       \E U \in svd(m, NumSingular(l)) :
           LET r == FirstRank(SquaredSingular(m, U), tn) IN
           /\ features' = [features EXCEPT ![l] =
                              [present |-> TRUE, basis |-> Columns(U, r)]]
           /\ cur' = [layer |-> l, branch |-> "first", outcome |-> "stored",
                      th |-> tn, mat |-> m, U |-> U, r |-> r,
                      had_basis |-> features[l].present,
                      old_basis |-> features[l].basis]
           /\ zero_only' = IF tn = 0 THEN zero_only ELSE zero_only \ {l}
    /\ keys' = Tail(keys)
    /\ UNCHANGED <<gpm_pc, trainerVars, fmapVars>>

\* one iteration of the loop of the else branch
SubsequentLayer ==
    /\ gpm_pc = "subsequent"
    /\ cur = NoIteration
    /\ keys # <<>>
    /\ LET l == Head(keys) IN
       \E m \in Mats(l), tn \in Thresholds :
           /\ zero_only' = IF tn = 0 THEN zero_only ELSE zero_only \ {l}
           /\ \/ \* features[layer_name] raises KeyError
                 /\ ~features[l].present
                 /\ cur' = [layer |-> l, branch |-> "subsequent",
                            outcome |-> "KeyError", th |-> tn, mat |-> m,
                            U |-> <<>>, r |-> 0, had_basis |-> FALSE,
                            old_basis |-> <<>>]
                 /\ gpm_pc' = "idle"
                 /\ keys' = <<>>
                 /\ UNCHANGED features
              \/ /\ features[l].present
                 /\ \E U \in svd(Residual(m, features[l].basis), NumSingular(l)) :
                      LET S2 == SquaredSingular(Residual(m, features[l].basis), U)
                          sval_total == Sum(m)
                          sval_hat == Sum(S2)
                          r == GreedyRank(S2, sval_total - sval_hat, sval_total, tn, 1)
                          Ui == hstack(features[l].basis, Columns(U, r))
                      IN
                      /\ cur' = [layer |-> l, branch |-> "subsequent",
                                 outcome |-> IF r = 0 THEN "skipped" ELSE "appended",
                                 th |-> tn, mat |-> m, U |-> U, r |-> r,
                                 had_basis |-> TRUE,
                                 old_basis |-> features[l].basis]
                      /\ features' =
                            IF r = 0 THEN features
                            ELSE [features EXCEPT ![l].basis = Truncate(Ui, MatRows(l))]
                 /\ keys' = Tail(keys)
                 /\ UNCHANGED gpm_pc
    /\ UNCHANGED <<trainerVars, fmapVars>>

\* back at the loop header: the locals of the finished iteration are dead
NextLayer ==
    /\ gpm_pc \in {"first", "subsequent"}
    /\ cur # NoIteration
    /\ cur' = NoIteration
    /\ UNCHANGED <<features, gpm_pc, keys, zero_only, trainerVars, fmapVars>>

\* return features
ReturnUpdate ==
    /\ gpm_pc \in {"first", "subsequent"}
    /\ cur = NoIteration
    /\ keys = <<>>
    /\ gpm_pc' = "idle"
    /\ UNCHANGED <<features, keys, cur, zero_only, trainerVars, fmapVars>>

InitGPM ==
    /\ TrainerAbsent
    /\ FmapIdle
    /\ GpmIdle

NextGPM ==
    \/ BeginUpdate
    \/ FirstTaskLayer
    \/ SubsequentLayer
    \/ NextLayer
    \/ ReturnUpdate

SpecGPM == InitGPM /\ [][NextGPM]_vars

-----------------------------------------------------------------------------
(* C5, C6, C7: the basis store.                                            *)

\* num/total < tn/ThDen as floats compare: false when the ratio is nan
RatioBelow(num, total, tn) == total > 0 /\ num * ThDen < tn * total

\* num/total >= tn/ThDen as floats compare: false when the ratio is nan
RatioAtLeast(num, total, tn) == total > 0 /\ num * ThDen >= tn * total

\* the thresholds strictly between 0 and 1
OpenUnitThresholds == 1..(ThDen - 1)

\* r of the last iteration cuts the cumulative energy ratio at its threshold,
\* and the layer's basis is the first r columns of U
CutsAtThreshold ==
    LET S2 == SquaredSingular(cur.mat, cur.U) IN
    /\ cur.r + 1 <= Len(S2)
    /\ (cur.r = 0 /\ cur.th > 0) \/ RatioBelow(CumSum(S2, cur.r), Sum(S2), cur.th)
    /\ RatioAtLeast(CumSum(S2, cur.r + 1), Sum(S2), cur.th)
    /\ features[cur.layer].present
    /\ features[cur.layer].basis = SubSeq(cur.U, 1, cur.r)

\* C5 as stated: for every layer updated while the store is empty and every
\* threshold t in (0,1), the cumulative energy ratio of the first r squared
\* singular values is < t <= that of the first r+1, and the stored basis is
\* the first r columns of U.
C5_FirstTaskTruncation ==
    (cur.branch = "first" /\ cur.th \in OpenUnitThresholds) => CutsAtThreshold

\* C5, amended: the same for every first-task matrix of positive total energy
\* (for the zero matrix every ratio is nan, r = 0 and no ratio reaches t).
C5_FirstTaskTruncationPositiveEnergy ==
    (cur.branch = "first" /\ cur.th \in OpenUnitThresholds /\ Sum(cur.mat) > 0)
        => CutsAtThreshold

\* a first-task update in (0,1) that retains a column and drops another
C5_Witness ==
    /\ cur.branch = "first"
    /\ cur.th \in OpenUnitThresholds
    /\ cur.r = 1
    /\ Len(cur.U) = 2
    /\ cur.mat[cur.U[2]] > 0
    /\ features[cur.layer].basis = <<cur.U[1]>>

\* the zero matrix in the first branch: r = 0 and an empty basis is stored
C5_ZeroMatrixStoresNothing ==
    (cur.branch = "first" /\ Sum(cur.mat) = 0)
        => (cur.r = 0 /\ features[cur.layer] = [present |-> TRUE, basis |-> <<>>])

\* C6: after any sequence of update_GPM calls, with any thresholds and any
\* matrices, the column count of each layer's basis is at most its row count.
C6_ColumnsAtMostRows ==
    \A l \in GpmLayers : Len(features[l].basis) <= MatRows(l)

\* an update whose concatenation had more columns than rows and was cut
C6_Witness ==
    /\ cur.outcome = "appended"
    /\ Len(cur.old_basis) + cur.r > MatRows(cur.layer)
    /\ Len(features[cur.layer].basis) = MatRows(cur.layer)

\* C7: from an empty store, a layer all of whose updates had threshold 0 has
\* r = 0 at each of them and a basis of no column after any number of calls,
\* the calls through the non-empty-store branch included.
C7_ThresholdZeroKeepsEmpty ==
    /\ \A l \in zero_only : Len(features[l].basis) = 0
    /\ (cur.layer \in zero_only /\ cur.outcome # "KeyError") => cur.r = 0

\* a later call, through the else branch, with threshold 0 on a matrix of
\* positive energy for a layer that only ever had threshold 0
C7_Witness ==
    /\ cur.branch = "subsequent"
    /\ cur.layer \in zero_only
    /\ cur.had_basis
    /\ cur.outcome = "skipped"
    /\ Sum(cur.mat) > 0
    /\ features[cur.layer] = [present |-> TRUE, basis |-> <<>>]

-----------------------------------------------------------------------------
(* The feature map.  A tensor is known by its shape; a buffer also keeps    *)
(* the batch sizes of the captures it was built from, in arrival order.     *)

\* hasattr(module, 'kernel_size'): the module hooked as "conv" is a
\* convolution, the one hooked as "fc" is linear
is_conv_layer(l) == l = "conv"

\* module.kernel_size
get_kernel_size(l) == <<1, 1>>

\* module.in_channels
get_in_channel(l) == 2

\* the feature dimension of the input of the linear module
FcFeatures == 2

\* fmap.samples[layer_name]
get_samples(l) == 2

\* the sides a captured convolutional input may have
Sides == 2..MaxSide

\* the inputs the hook of a layer may receive: any dimension may be 0
InputsOf(l) ==
    IF is_conv_layer(l)
    THEN {<<b, get_in_channel(l), w, h>> :
             b \in 0..MaxBatch, w \in {0} \cup Sides, h \in {0} \cup Sides}
    ELSE {<<b, f>> : b \in 0..MaxBatch, f \in {0, FcFeatures}}

\* 0 in input.shape
ZeroSized(x) == \E i \in 1..Len(x) : x[i] = 0

\* input_size[dim] + 2 * 0 - 1 * (kernel_size[dim] - 1) - 1, for both dims
compute_conv_output_size(input_size, kernel_size) ==
    <<input_size[1] - (kernel_size[1] - 1) - 1, input_size[2] - (kernel_size[2] - 1) - 1>>

\* an exit of set_activation_for_layer: the buffers and how the call ended
Outcome(a, res) == [act |-> a, result |-> res]

\* the else part of set_activation_for_layer
store_activation(a, sizes, raw, l, x) ==
    IF raw
    THEN {Outcome([a EXCEPT ![l] = [shape |-> x, parts |-> <<x[1]>>]], "ok")}
    ELSE IF sizes[l] = <<>> THEN {Outcome(a, "KeyError")}
    ELSE IF ~is_conv_layer(l) THEN {Outcome(a, "AttributeError")}
    ELSE LET out == compute_conv_output_size(sizes[l], get_kernel_size(l))
             pooled == <<x[1], x[2], out[1], out[2]>>
             stored ==
                IF a[l] = NoAct
                THEN Outcome([a EXCEPT ![l] = [shape |-> pooled, parts |-> <<x[1]>>]], "ok")
                ELSE IF Tail(a[l].shape) = Tail(pooled)
                     THEN Outcome([a EXCEPT ![l] =
                                     [shape |-> <<a[l].shape[1] + x[1]>> \o Tail(pooled),
                                      parts |-> Append(a[l].parts, x[1])]], "ok")
                     ELSE Outcome(a, "RuntimeError")
         IN  IF out[1] < 0 \/ out[2] < 0 THEN {Outcome(a, "RuntimeError")}
             ELSE IF out[1] = 0 \/ out[2] = 0
                  THEN {Outcome(a, "RuntimeError"), stored}
                  ELSE {stored}

\* set_activation_for_layer without the test of line 100
set_activation_unchecked(a, sizes, raw, l, x) == store_activation(a, sizes, raw, l, x)

\* FeatureMap.set_activation_for_layer: the possible exits
set_activation_for_layer(a, sizes, raw, l, x) ==
    IF ZeroSized(x) THEN {Outcome(a, "Exception")}
    ELSE store_activation(a, sizes, raw, l, x)

RECURSIVE Forward(_, _, _, _, _, _)
\* model(random_samples): the hooks of the named layers fire in forward
\* order, and the first one that raises ends the pass
Forward(a, sizes, raw, names, xs, i) ==
    IF i > Len(names) THEN {Outcome(a, "ok")}
    ELSE UNION {IF o.result = "ok"
                THEN Forward(o.act, sizes, raw, names, xs, i + 1)
                ELSE {o} :
                o \in set_activation_for_layer(a, sizes, raw, names[i], xs[i])}

\* out_sizes[layer_name] read from the shape of the buffer
DiscoveredSize(l, buffer) ==
    IF is_conv_layer(l) THEN <<buffer.shape[3], buffer.shape[4]>>
    ELSE <<buffer.shape[2]>>

RECURSIVE InputsFor(_)
\* the inputs one forward pass hands to the hooks of the named layers
InputsFor(names) ==
    IF names = <<>> THEN {<<>>}
    ELSE {<<x>> \o rest : x \in InputsOf(Head(names)), rest \in InputsFor(Tail(names))}

\* the column index k of the loops of lines 160-166 after the given number
\* of iterations: sample kk outermost, then w_index, then h_index
PatchAt(k, pw, ph) == <<k \div (pw * ph), (k % (pw * ph)) \div ph, k % ph>>

\* an exit of the body of the loop of get_representation_matrix
MatOutcome(m, res) == [mat |-> m, result |-> res]

\* lines 154-167: the matrix of a convolutional layer
conv_matrix(l, a, sizes) ==
    LET kernel_size == get_kernel_size(l)
        in_channel == get_in_channel(l)
        batch_size == get_samples(l)
    IN  IF sizes[l] = <<>> THEN MatOutcome(NoMat, "KeyError")
        ELSE
        LET out == compute_conv_output_size(sizes[l], kernel_size)
            rows == kernel_size[1] * kernel_size[2] * in_channel
            cols == out[1] * out[2] * batch_size
            pw == Max(0, out[1] - kernel_size[1])
            ph == Max(0, out[2] - kernel_size[2])
            n == batch_size * pw * ph
        IN  IF cols < 0 THEN MatOutcome(NoMat, "RuntimeError")
            ELSE IF a[l] = NoAct THEN MatOutcome(NoMat, "KeyError")
            ELSE IF n > 0 /\ a[l].shape[1] < batch_size
                 THEN MatOutcome(NoMat, "IndexError")
            ELSE IF n > 0 /\ \/ a[l].shape[2] # in_channel
                             \/ (pw - 1) + kernel_size[1] > a[l].shape[3]
                             \/ (ph - 1) + kernel_size[2] > a[l].shape[4]
                 THEN MatOutcome(NoMat, "RuntimeError")
            ELSE MatOutcome([rows |-> rows, cols |-> cols,
                             written |-> [k \in 1..n |-> PatchAt(k - 1, pw, ph)]],
                            "ok")

\* lines 169-171: act[0:batch_size].transpose(1, 0)
linear_matrix(l, a) ==
    IF a[l] = NoAct THEN MatOutcome(NoMat, "KeyError")
    ELSE LET cols == Min(get_samples(l), a[l].shape[1]) IN
         MatOutcome([rows |-> a[l].shape[2], cols |-> cols,
                     written |-> [k \in 1..cols |-> <<k - 1, 0, 0>>]], "ok")

\* the body of the loop over layer_names
matrix_for(l, a, sizes) ==
    IF is_conv_layer(l) THEN conv_matrix(l, a, sizes) ELSE linear_matrix(l, a)

\* get_representation_matrix: the first layer that raises, or none
FirstFailure(names, a, sizes) ==
    LET bad == {i \in 1..Len(names) : matrix_for(names[i], a, sizes).result # "ok"} IN
    IF bad = {} THEN "ok"
    ELSE matrix_for(names[CHOOSE i \in bad : \A j \in bad : i <= j], a, sizes).result

\* the samples a buffer holds
Batch(buffer) == IF buffer = NoAct THEN 0 ELSE buffer.shape[1]

\* a forward hook fires: capture_activation calls set_activation_for_layer
Capture ==
    /\ fm_last = NoCall
    /\ \E i \in 1..Len(layer_names) :
       \E x \in InputsOf(layer_names[i]) :
       \E o \in set_activation_for_layer(act, input_sizes, getting_conv_size,
                                         layer_names[i], x) :
        /\ \A l \in FmapLayers : Batch(o.act[l]) <= MaxBuffer
        /\ act' = o.act
        /\ fm_last' = [op |-> "capture", layer |-> layer_names[i],
                       inputs |-> <<x>>, result |-> o.result]
        /\ UNCHANGED <<layer_names, getting_conv_size, input_sizes, mats,
                       trainerVars, gpmVars>>

\* fmap.clear_activations()
ClearActivations ==
    /\ fm_last = NoCall
    /\ act' = Cleared
    /\ fm_last' = [op |-> "clear", layer |-> "", inputs |-> <<>>, result |-> "ok"]
    /\ UNCHANGED <<layer_names, getting_conv_size, input_sizes, mats,
                   trainerVars, gpmVars>>

\* determine_conv_output_sizes(model, random_samples)
DetermineConvOutputSizes ==
    /\ fm_last = NoCall
    /\ \E xs \in InputsFor(layer_names) :
       \E o \in Forward(Cleared, input_sizes, getting_conv_size, layer_names, xs, 1) :
        /\ fm_last' = [op |-> "calibrate", layer |-> "", inputs |-> xs,
                       result |-> o.result]
        /\ \/ \* the forward pass raised
              /\ o.result # "ok"
              /\ act' = o.act
              /\ UNCHANGED input_sizes
           \/ /\ o.result = "ok"
              /\ act' = Cleared
              /\ input_sizes' =
                    [l \in FmapLayers |->
                        IF l \in Range(layer_names)
                        THEN DiscoveredSize(l, o.act[l])
                        ELSE input_sizes[l]]
        /\ UNCHANGED <<layer_names, getting_conv_size, mats, trainerVars, gpmVars>>

\* get_representation_matrix(net, device)
GetRepresentationMatrix ==
    /\ fm_last = NoCall
    /\ LET res == FirstFailure(layer_names, act, input_sizes) IN
        /\ fm_last' = [op |-> "matrix", layer |-> "", inputs |-> <<>>, result |-> res]
        /\ mats' = [l \in FmapLayers |->
                      IF res = "ok" /\ l \in Range(layer_names)
                      THEN matrix_for(l, act, input_sizes).mat
                      ELSE NoMat]
    /\ UNCHANGED <<layer_names, getting_conv_size, act, input_sizes,
                   trainerVars, gpmVars>>

\* the caller leaves calibration: captures are pooled and accumulated from now on
BeginAccumulation ==
    /\ fm_last = NoCall
    /\ getting_conv_size
    /\ getting_conv_size' = FALSE
    /\ fm_last' = [op |-> "accumulate", layer |-> "", inputs |-> <<>>, result |-> "ok"]
    /\ UNCHANGED <<layer_names, act, input_sizes, mats, trainerVars, gpmVars>>

\* the call is over: its arguments and what it returned or raised are dropped
CallReturns ==
    /\ fm_last # NoCall
    /\ fm_last' = NoCall
    /\ mats' = [l \in FmapLayers |-> NoMat]
    /\ UNCHANGED <<layer_names, getting_conv_size, act, input_sizes,
                   trainerVars, gpmVars>>

\* a FeatureMap whose subclass names its layers, hooks registered
InitFmap ==
    /\ TrainerAbsent
    /\ GpmIdle
    /\ layer_names \in {<<"conv">>, <<"conv", "fc">>}
    /\ FmapFresh

NextFmap ==
    \/ Capture
    \/ ClearActivations
    \/ DetermineConvOutputSizes
    \/ GetRepresentationMatrix
    \/ BeginAccumulation
    \/ CallReturns

SpecFmap == InitFmap /\ [][NextFmap]_vars

-----------------------------------------------------------------------------
(* C8, C9, C10: the feature map.                                           *)

\* get_representation_matrix has just returned and the buffer of "conv"
\* holds exactly its sample budget
MatrixOfFullBuffer ==
    /\ fm_last.op = "matrix"
    /\ fm_last.result = "ok"
    /\ act["conv"] # NoAct
    /\ act["conv"].shape[1] = get_samples("conv")

\* C8: for a convolutional layer with buffer shape (B,C,W,H), kernel (kh,kw)
\* and sample budget B, the matrix returned has C*kh*kw rows and
\* B*(W-kh)*(H-kw) columns, every column holds one sliding patch (none is
\* left unwritten), patch position fastest within a sample, samples outermost.
C8_RepresentationMatrix ==
    MatrixOfFullBuffer =>
        LET sh == act["conv"].shape
            ks == get_kernel_size("conv")
            nw == sh[3] - ks[1]
            nh == sh[4] - ks[2]
            m == mats["conv"]
        IN  /\ m.rows = sh[2] * ks[1] * ks[2]
            /\ m.cols = sh[1] * nw * nh
            /\ Len(m.written) = m.cols
            /\ \A c \in 1..Len(m.written) :
                  m.written[c] = <<(c - 1) \div (nw * nh),
                                   ((c - 1) % (nw * nh)) \div nh,
                                   (c - 1) % nh>>

\* what the code does instead: whenever the returned matrix has a column,
\* at least one column is left as torch.zeros made it
C8_SomeColumnUnwritten ==
    (MatrixOfFullBuffer /\ mats["conv"].cols > 0)
        => Len(mats["conv"].written) < mats["conv"].cols

\* C9: a capture of a tensor with a zero-sized dimension raises, in both
\* capture modes, and leaves the buffer of every layer as it was.
C9_ZeroSizedCaptureFailsFast ==
    [][(fm_last'.op = "capture" /\ ZeroSized(fm_last'.inputs[1]))
          => (fm_last'.result = "Exception" /\ act' = act)]_vars

\* a zero-sized capture was refused in accumulation mode while the layer's
\* buffer held two earlier captures
C9_Witness ==
    /\ fm_last.op = "capture"
    /\ ZeroSized(fm_last.inputs[1])
    /\ fm_last.result = "Exception"
    /\ ~getting_conv_size
    /\ Len(act[fm_last.layer].parts) = 2

\* a zero-sized capture was refused in raw mode while a buffer was held
C9_WitnessRawMode ==
    /\ fm_last.op = "capture"
    /\ ZeroSized(fm_last.inputs[1])
    /\ fm_last.result = "Exception"
    /\ getting_conv_size
    /\ act[fm_last.layer] # NoAct

\* the size of a tensor as calibration reads it: (w, h) or the feature dimension
SizeOfInput(l, x) == IF is_conv_layer(l) THEN <<x[3], x[4]>> ELSE <<x[2]>>

\* every named layer's representative size is that of the tensor captured
\* for it in the calibration pass just run, and all buffers are empty
SizesAsCaptured ==
    /\ \A i \in 1..Len(layer_names) :
          input_sizes[layer_names[i]] = SizeOfInput(layer_names[i], fm_last.inputs[i])
    /\ act = Cleared

\* C10: whatever the capture mode and the buffers were before, after
\* determine_conv_output_sizes every named layer's representative input size
\* equals the size of the tensor captured for it in the calibration pass,
\* and all buffers are empty again.
C10_CalibrationInRawMode ==
    (fm_last.op = "calibrate" /\ fm_last.result = "ok") => SizesAsCaptured

\* what the code does: the same, only when the map already is in raw mode
C10_CalibrationWhenAlreadyRaw ==
    (fm_last.op = "calibrate" /\ fm_last.result = "ok" /\ getting_conv_size)
        => SizesAsCaptured

-----------------------------------------------------------------------------
(* C11, C12, C13: the basis store across calls.                            *)

\* C11: in any call, a layer with no stored basis yet gets the first-task
\* truncation on its first update, also when other layers already have a
\* basis, and the call does not fail for that layer.
C11_FirstUpdatePerLayer ==
    (cur.layer # "" /\ ~cur.had_basis) =>
        /\ cur.outcome = "stored"
        /\ features[cur.layer] =
              [present |-> TRUE,
               basis |-> SubSeq(cur.U, 1,
                                FirstRank(SquaredSingular(cur.mat, cur.U), cur.th))]

\* what the code does: the branch is chosen for the whole store, so a layer
\* missing from a store that is not empty ends the call with KeyError
C11_AbsentLayerOfPopulatedStoreRaises ==
    (cur.branch = "subsequent" /\ ~cur.had_basis) =>
        (cur.outcome = "KeyError" /\ ~features[cur.layer].present /\ gpm_pc = "idle")

\* a layer with no basis was refused while another layer had one
C11_RefusedWhileOtherPopulated ==
    /\ cur.outcome = "KeyError"
    /\ \E l \in GpmLayers \ {cur.layer} : features[l].present

\* the energy of m on the axes the basis spans
Explained(m, basis) ==
    Sum([i \in 1..Len(m) |-> IF i \in Range(basis) THEN m[i] ELSE 0])

\* the squared singular values, descending, of what m keeps outside the
\* span of the basis
ResidualValues(m, basis, k) ==
    LET res == [i \in 1..Len(m) |-> IF i \in Range(basis) THEN 0 ELSE m[i]]
        U == CHOOSE V \in svd(res, k) : TRUE
    IN  SquaredSingular(res, U)

\* the old basis and the first n residual directions together explain at
\* least the threshold of the last iteration (false when the ratio is nan)
Reaches(n) ==
    LET s == ResidualValues(cur.mat, cur.old_basis, Len(cur.U)) IN
    RatioAtLeast(Explained(cur.mat, cur.old_basis) + CumSum(s, n),
                 Sum(cur.mat), cur.th)

\* the smallest count that reaches the threshold, or every residual direction
SmallestReaching ==
    LET ns == {n \in 0..Len(cur.U) : Reaches(n)} IN
    IF ns = {} THEN Len(cur.U) ELSE CHOOSE n \in ns : \A o \in ns : n <= o

\* the last iteration appended the smallest reaching count, and nothing,
\* leaving the basis as it was, when the old basis alone reaches the threshold
AppendsSmallestReaching ==
    /\ cur.r = SmallestReaching
    /\ Reaches(0) => (cur.r = 0 /\ features[cur.layer].basis = cur.old_basis)
    /\ features[cur.layer].basis =
          SubSeq(cur.old_basis \o SubSeq(cur.U, 1, cur.r), 1,
                 Min(MatRows(cur.layer), Len(cur.old_basis) + cur.r))

\* the axes of the columns of a basis are distinct: it is orthonormal
Orthonormal(basis) == \A i, j \in 1..Len(basis) : i # j => basis[i] # basis[j]

\* C12 as stated: for a layer with an existing basis, r is the smallest count
\* of residual directions, in descending order, with which the energy ratio
\* explained reaches threshold[layer] (all of them if it never does); r = 0
\* and an unchanged basis when the old basis alone reaches it.
C12_SubsequentRule ==
    (cur.branch = "subsequent" /\ cur.had_basis) => AppendsSmallestReaching

\* C12, amended: the same for a matrix of positive total energy and an
\* orthonormal stored basis.
C12_SubsequentRuleOrthonormalPositiveEnergy ==
    (cur.branch = "subsequent" /\ cur.had_basis /\ Sum(cur.mat) > 0
        /\ Orthonormal(cur.old_basis)) => AppendsSmallestReaching

\* an old basis that explains part of the energy, and one of two residual
\* directions appended
C12_Witness ==
    /\ cur.branch = "subsequent"
    /\ cur.had_basis
    /\ Orthonormal(cur.old_basis)
    /\ Explained(cur.mat, cur.old_basis) > 0
    /\ cur.r = 1
    /\ Len(cur.U) = 2
    /\ features[cur.layer].basis = Append(cur.old_basis, cur.U[1])

\* the zero matrix in the else branch: r = 0 although no count reaches
C12_ZeroMatrixIsSkipped ==
    (cur.branch = "subsequent" /\ cur.had_basis /\ Sum(cur.mat) = 0)
        => (cur.r = 0 /\ cur.outcome = "skipped")

\* C13: across any sequence of update_GPM calls a layer's column count never
\* decreases, its stored columns stay the leading columns of the new basis
\* (also when the concatenation is cut to the row count), and no layer
\* entry is removed.
C13_BasisOnlyGrows ==
    [][\A l \in GpmLayers :
          /\ features[l].present => features'[l].present
          /\ Len(features'[l].basis) >= Len(features[l].basis)
          /\ SubSeq(features'[l].basis, 1, Len(features[l].basis)) = features[l].basis]_vars

\* columns were appended to a basis that had some, the concatenation was cut
\* to the row count, and the old columns lead the new basis
C13_Witness ==
    /\ cur.outcome = "appended"
    /\ Len(cur.old_basis) >= 1
    /\ Len(cur.old_basis) < MatRows(cur.layer)
    /\ Len(cur.old_basis) + cur.r > MatRows(cur.layer)
    /\ SubSeq(features[cur.layer].basis, 1, Len(cur.old_basis)) = cur.old_basis
    /\ features[cur.layer].basis # cur.old_basis

-----------------------------------------------------------------------------
(* C14, C15, C16: accumulation and the sample budget.                      *)

\* a capture in accumulation mode of an input with no zero-sized dimension
\* has just been made for a layer of the given kind
AccumulatingCapture(conv) ==
    /\ fm_last.op = "capture"
    /\ ~getting_conv_size
    /\ is_conv_layer(fm_last.layer) = conv
    /\ ~ZeroSized(fm_last.inputs[1])

\* C14: in accumulation mode every capture for a linear layer succeeds and
\* appends the raw (batch, feature) input unchanged: the buffer is the
\* concatenation, in arrival order, of the raw inputs, with no pooling and
\* no kernel-size lookup.
C14_LinearCaptureAppendsRaw ==
    AccumulatingCapture(FALSE) =>
        LET x == fm_last.inputs[1]
            buffer == act[fm_last.layer]
        IN  /\ fm_last.result = "ok"
            /\ buffer # NoAct
            /\ buffer.shape = <<Sum(buffer.parts), x[2]>>
            /\ buffer.parts[Len(buffer.parts)] = x[1]

\* what the code does: the capture looks up the input size and the kernel
\* size of the linear module and raises
C14_LinearCaptureRaises ==
    AccumulatingCapture(FALSE) => fm_last.result \in {"KeyError", "AttributeError"}

\* a linear capture in accumulation mode, after calibration, raised AttributeError
C14_RaisedAfterCalibration ==
    /\ AccumulatingCapture(FALSE)
    /\ input_sizes[fm_last.layer] # <<>>
    /\ fm_last.result = "AttributeError"

\* the buffer of the layer just captured has the given spatial size and
\* holds, in arrival order, the samples of the captures since the last clear
BufferIs(size) ==
    LET x == fm_last.inputs[1]
        buffer == act[fm_last.layer]
    IN  /\ buffer # NoAct
        /\ <<buffer.shape[3], buffer.shape[4]>> = size
        /\ buffer.shape[1] = Sum(buffer.parts)
        /\ buffer.parts[Len(buffer.parts)] = x[1]

\* C15: in accumulation mode, after any number of captures a convolutional
\* layer's buffer has the representative spatial size (W,H) discovered at
\* calibration and a batch dimension equal to the sum of the batch sizes of
\* the inputs captured since the last clear, in arrival order.
C15_ConvBufferAtRepresentativeSize ==
    (AccumulatingCapture(TRUE) /\ fm_last.result = "ok")
        => BufferIs(input_sizes[fm_last.layer])

\* what the code does: the buffer has the representative size less the kernel
C15_ConvBufferAtConvOutputSize ==
    (AccumulatingCapture(TRUE) /\ fm_last.result = "ok")
        => BufferIs(compute_conv_output_size(input_sizes[fm_last.layer],
                                             get_kernel_size(fm_last.layer)))

\* three captures were concatenated in accumulation mode
C15_ThreeCapturesConcatenated ==
    /\ AccumulatingCapture(TRUE)
    /\ fm_last.result = "ok"
    /\ Len(act[fm_last.layer].parts) = 3

\* the named layers whose buffer holds fewer samples than their budget
UnderBudget ==
    {l \in Range(layer_names) : Batch(act[l]) < get_samples(l)}

\* C16: whenever a layer's buffer holds fewer samples than its budget,
\* get_representation_matrix raises and returns no matrix, for convolutional
\* and linear layers alike.
C16_UnderBudgetRaises ==
    (fm_last.op = "matrix" /\ UnderBudget # {}) =>
        (fm_last.result # "ok" /\ \A l \in FmapLayers : mats[l] = NoMat)

\* what the code does for a linear layer: a matrix with as many columns as
\* the buffer has samples
C16_LinearReturnsWhatItHas ==
    (fm_last.op = "matrix" /\ fm_last.result = "ok" /\ "fc" \in Range(layer_names))
        => mats["fc"].cols = Min(get_samples("fc"), Batch(act["fc"]))

\* what the code does for a convolutional layer: it returns only if no
\* patch is read, with every column left at zero
C16_ConvReturnsUnwritten ==
    (fm_last.op = "matrix" /\ fm_last.result = "ok" /\ "conv" \in UnderBudget)
        => mats["conv"].written = <<>>

\* a matrix with one column was returned for a linear layer of budget two
C16_LinearMatrixUnderBudget ==
    /\ fm_last.op = "matrix"
    /\ fm_last.result = "ok"
    /\ "fc" \in UnderBudget
    /\ mats["fc"].cols = 1

\* the under-budget read of a convolutional buffer raised
C16_ConvIndexError ==
    /\ fm_last.op = "matrix"
    /\ fm_last.result = "IndexError"
    /\ "conv" \in UnderBudget

-----------------------------------------------------------------------------
(* The order of the two backward passes in step.                           *)

\* the positions of step between the first snapshot and the reconciliation
AfterCurrentSnapshot ==
    {"current_snapshot", "zeroed", "memory_backward", "memory_snapshot", "angle_chosen"}

\* the positions of step at which nothing has been written back yet
BeforeWriteBack == {"idle", "novel_backward"} \cup AfterCurrentSnapshot

\* the positions of step from the second snapshot on
FromMemorySnapshot == {"memory_snapshot", "angle_chosen", "combined", "skipped"}

\* the first snapshot is the flattened p.grad right after the novel backward
\* pass, the second one is the flattened gradient of the memory batch alone,
\* and up to the reconciliation the gradient slots hold what backward() left
C17_SnapshotsAreOfTheirPass ==
    /\ tpc = "current_snapshot" => current_gradient = get_gradient(params, grad)
    /\ tpc \in FromMemorySnapshot =>
          memory_gradient = get_gradient(params, batch_grad)
    /\ tpc \in {"memory_snapshot", "angle_chosen"} =>
          get_gradient(params, grad) = memory_gradient
    /\ tpc \in BeforeWriteBack => new_grad = <<>>

\* C17: the current-task vector the combination uses is the snapshot taken
\* right after the novel backward pass, and neither zero_grad nor the memory
\* backward pass alters it; the gradients are zeroed between the passes, so
\* the memory-task vector is the gradient of the memory batch alone and never
\* the sum of both passes; both snapshots are taken before any write-back to
\* the gradient slots, and the reconciliation leaves both as they were taken.
C17_BackwardPassOrdering ==
    /\ []C17_SnapshotsAreOfTheirPass
    /\ [][/\ tpc \in AfterCurrentSnapshot => current_gradient' = current_gradient
          /\ tpc \in FromMemorySnapshot => memory_gradient' = memory_gradient]_vars

\* a step has combined the two vectors, where both passes gave a non-zero
\* gradient to the same component and the two gradients differ there, so that
\* the sum of the passes differs from either of them
C17_Witness ==
    /\ tpc = "combined"
    /\ memory_gradient = get_gradient(params, batch_grad)
    /\ \E k \in 1..Len(current_gradient) :
          /\ current_gradient[k].num # 0
          /\ memory_gradient[k].num # 0
          /\ current_gradient[k] # memory_gradient[k]

=============================================================================
